---- MODULE Spec2Model ----
(***************************************************************************)
(* Model of the realtime collaboration server of StateFlow_Backend         *)
(* (src/src/services/collaboration.service.ts, class CollaborationServer). *)
(*                                                                         *)
(* The server is one Node.js event loop: every socket.io event handler     *)
(* runs to completion before the next one starts, so one handler is one    *)
(* action.  The state is the socket.io room table (adapter.rooms), the     *)
(* identity attached to each socket by the handshake middleware, and the   *)
(* presence map connectedUsers.  `out` holds the emissions made by the     *)
(* handler that ran last and `last` names that handler and its arguments.  *)
(***************************************************************************)
EXTENDS Integers, FiniteSets, Sequences, Bags, TLC

\* ---------------------------------------------------------------- bounds
NumConns == 2
NumUsers == 2
NumWorkspaces == 2
NumPages == 1
NumProjects == 1

Conns == 1..NumConns
Users == 1..NumUsers
Workspaces == 1..NumWorkspaces
Pages == 1..NumPages
Projects == 1..NumProjects

\* An id that a token may carry and that User.findById resolves to no record.
NoSuchUser == NumUsers + 1
\* A claim field that is absent from the token payload (falsy in `a || b`).
Absent == 0

VARIABLES
  status,          \* socket lifecycle: "idle", "connected", "rejected", "closed"
  user,            \* AuthenticatedSocket.user of each socket (line 11), 0 if none
  rooms,           \* io.sockets.adapter.rooms: room name -> set of sockets
  connectedUsers,  \* connectedUsers: workspaceId -> Set of userIds (line 16)
  out,             \* the emissions of the handler that ran last
  last,            \* the handler that ran last, its socket and arguments
  tasks,           \* the detectMentions calls in flight, oldest first
  notifications,   \* the mention documents of the Notification collection, a bag
  now,             \* Date.now(), in minutes
  collaborationServer,  \* the server reference held by each REST service module
  store            \* the activity and task documents, and assignments being notified

\* The state of mention processing; the handlers below leave it alone.
mvars == <<tasks, notifications, now>>
\* The state of the REST services that publish through the server.
svars == <<collaborationServer, store>>
vars == <<status, user, rooms, connectedUsers, out, last, tasks, notifications, now,
          collaborationServer, store>>

\* ---------------------------------------------------------------- rooms
\* Room names are the strings `user:<id>`, `workspace:<id>`, `page:<id>` and
\* `project:<id>`; the prefix up to the first colon is the kind, so a name is
\* the pair <<kind, key>>.
UserRoom(u) == <<"user", u>>
WorkspaceRoom(w) == <<"workspace", w>>
PageRoom(p) == <<"page", p>>
ProjectRoom(j) == <<"project", j>>

Room == ({"user"} \X Users) \cup ({"workspace"} \X Workspaces)
          \cup ({"page"} \X Pages) \cup ({"project"} \X Projects)

\* socket.join(room) / socket.leave(room) on the adapter's room table.
\* A variant in which joining a room one is in leaves it.
SocketJoinToggle(rms, c, r) ==
  IF c \in rms[r] THEN [rms EXCEPT ![r] = @ \ {c}] ELSE [rms EXCEPT ![r] = @ \cup {c}]
SocketJoin(rms, c, r) == [rms EXCEPT ![r] = @ \cup {c}]
SocketLeave(rms, c, r) == [rms EXCEPT ![r] = @ \ {c}]
\* The adapter removes a closing socket from every room before the
\* 'disconnect' event is dispatched.
SocketLeaveAll(rms, c) == [r \in Room |-> rms[r] \ {c}]

\* Recipients of io.to(room).emit(...): every socket in the room.
IoTo(rms, r) == rms[r]
\* Recipients of socket.to(room).emit(...): every socket in the room except
\* the emitting socket.
SocketTo(rms, c, r) == rms[r] \ {c}

RoomsOf(rms, c) == {r \in Room : c \in rms[r]}

\* ------------------------------------------------------------- emissions
\* One emission: the event name, the room it was addressed to (<<"socket", c>>
\* for socket.emit to the socket itself), the sockets that receive it, the
\* emitting socket (0 for the server), the userId of the payload and, for
\* current-users, the user ids of the snapshot.
Emission(ev, room, to, from, uid, users) ==
  [ev |-> ev, room |-> room, to |-> to, from |-> from, userId |-> uid, users |-> users]

\* ---------------------------------------------------- connectedUsers map
\* Map<workspaceId, Set<userId>>: a function whose domain is the set of keys.
\* User ids are compared by value, as the strings the code declares them to
\* be (Map<string, Set<string>>, `_id as string`).
MapHas(m, k) == k \in DOMAIN m
MapGet(m, k) == IF k \in DOMAIN m THEN m[k] ELSE {}
MapSet(m, k, v) == [x \in DOMAIN m \cup {k} |-> IF x = k THEN v ELSE m[x]]
MapDelete(m, k) == [x \in DOMAIN m \ {k} |-> m[x]]

EmptyMap == [x \in {} |-> {}]

\* ------------------------------------------------------------ handshake
\* A handshake token: absent, or a JWT whose signature does not verify, or
\* one that has expired, or a verified one with its payload.  The payload
\* carries the four candidate identity claims userId, _id, id, sub, each
\* Absent or an id.
ClaimFields == 1..4
ClaimVals == 0..NoSuchUser
NoClaims == [f \in ClaimFields |-> Absent]
Token(kind, claims) == [kind |-> kind, claims |-> claims]
NoTok == Token("-", NoClaims)
\* The payload of a token issued for user u: the login endpoints sign _id.
IssuedClaims(u) == [f \in ClaimFields |-> IF f = 2 THEN u ELSE Absent]
\* No token at all, and a user's token that is forged or has expired.
BadTokens == {Token("none", NoClaims)}
               \cup {Token(k, IssuedClaims(u)) : k \in {"badsig", "expired"}, u \in Users}
OkTokens == {Token("ok", cl) : cl \in [ClaimFields -> ClaimVals]}
Tokens == BadTokens \cup OkTokens

\* decoded?.userId || decoded?._id || decoded?.id || decoded?.sub
Or(a, b) == IF a # Absent THEN a ELSE b
DecodedUserId(claims) == Or(Or(Or(claims[1], claims[2]), claims[3]), claims[4])

\* User.findById(id): the user record, or 0 (null) when there is none.
FindById(id) == IF id \in Users THEN id ELSE 0

\* The outcome of the middleware for a token: "ok" with the user attached to
\* the socket, or the Error passed to next().
\* A variant that reads the identity from the userId claim alone.
MiddlewareResultUserIdOnly(tok) ==
  IF tok.kind # "ok" THEN [err |-> "Authentication error", user |-> 0]
  ELSE LET found == IF tok.claims[1] # Absent THEN FindById(tok.claims[1]) ELSE 0
       IN IF found = 0 THEN [err |-> "User not found", user |-> 0]
          ELSE [err |-> "ok", user |-> found]
\* A variant whose verification does not reject an expired token.
MiddlewareResultIgnoreExpiry(tok) ==
  IF tok.kind \in {"none", "badsig"} THEN [err |-> "Authentication error", user |-> 0]
  ELSE LET decodedUserId == DecodedUserId(tok.claims)
           found == IF decodedUserId # Absent THEN FindById(decodedUserId) ELSE 0
       IN IF found = 0 THEN [err |-> "User not found", user |-> 0]
          ELSE [err |-> "ok", user |-> found]
MiddlewareResult(tok) ==
  IF tok.kind = "none" THEN [err |-> "Authentication error", user |-> 0]
  ELSE IF tok.kind # "ok" THEN [err |-> "Authentication error", user |-> 0]
  ELSE LET decodedUserId == DecodedUserId(tok.claims)
           found == IF decodedUserId # Absent THEN FindById(decodedUserId) ELSE 0
       IN IF found = 0 THEN [err |-> "User not found", user |-> 0]
          ELSE [err |-> "ok", user |-> found]

Op(op, c, key, u, tok, err) ==
  [op |-> op, conn |-> c, key |-> key, user |-> u, tok |-> tok, err |-> err]

\* io.use middleware followed, when it accepts, by the 'connection' handler,
\* which joins the socket to its user room.
Handshake(c, tok) ==
  /\ status[c] = "idle"
  /\ LET res == MiddlewareResult(tok) IN
       IF res.err = "ok"
       THEN /\ status' = [status EXCEPT ![c] = "connected"]
            /\ user' = [user EXCEPT ![c] = res.user]
            /\ rooms' = SocketJoin(rooms, c, UserRoom(res.user))
            /\ last' = Op("handshake", c, 0, res.user, tok, "ok")
       ELSE /\ status' = [status EXCEPT ![c] = "rejected"]
            /\ UNCHANGED <<user, rooms>>
            /\ last' = Op("handshake", c, 0, 0, tok, res.err)
  /\ out' = {}
  /\ UNCHANGED connectedUsers
  /\ UNCHANGED mvars
  /\ UNCHANGED svars

\* ------------------------------------------------------- join-workspace
JoinWorkspacePresence(cu, w, u) ==
  LET m == IF ~MapHas(cu, w) THEN MapSet(cu, w, {}) ELSE cu
  IN MapSet(m, w, m[w] \cup {u})

\* A variant that notifies with io.to(...), which does not exclude the sender.
UserJoinedRecipientsEcho(rms, c, w) == IoTo(rms, WorkspaceRoom(w))
UserJoinedRecipients(rms, c, w) == SocketTo(rms, c, WorkspaceRoom(w))

CurrentUsersSnapshot(cu, w) == MapGet(cu, w)

JoinWorkspace(c, w) ==
  /\ status[c] = "connected"
  /\ rooms' = SocketJoin(rooms, c, WorkspaceRoom(w))
  /\ connectedUsers' = JoinWorkspacePresence(connectedUsers, w, user[c])
  /\ out' = { Emission("user-joined", WorkspaceRoom(w),
                       UserJoinedRecipients(rooms', c, w), c, user[c], {}),
              Emission("current-users", <<"socket", c>>, {c}, 0, 0,
                       CurrentUsersSnapshot(connectedUsers', w)) }
  /\ last' = Op("join-workspace", c, w, user[c], NoTok, "ok")
  /\ UNCHANGED <<status, user>>
  /\ UNCHANGED mvars
  /\ UNCHANGED svars

\* ------------------------------------------------ join-page, join-project
\* A variant that sends the joiner an update broadcast before it joined.
JoinPageReplay(c, p) ==
  /\ status[c] = "connected"
  /\ rooms' = SocketJoin(rooms, c, PageRoom(p))
  /\ out' = { Emission("document-update", PageRoom(p), {c}, 0, 0, {}) }
  /\ last' = Op("join-page", c, p, user[c], NoTok, "ok")
  /\ UNCHANGED <<status, user, connectedUsers>>
  /\ UNCHANGED mvars
  /\ UNCHANGED svars

JoinPage(c, p) ==
  /\ status[c] = "connected"
  /\ rooms' = SocketJoin(rooms, c, PageRoom(p))
  /\ out' = {}
  /\ last' = Op("join-page", c, p, user[c], NoTok, "ok")
  /\ UNCHANGED <<status, user, connectedUsers>>
  /\ UNCHANGED mvars
  /\ UNCHANGED svars

JoinProject(c, j) ==
  /\ status[c] = "connected"
  /\ rooms' = SocketJoin(rooms, c, ProjectRoom(j))
  /\ out' = {}
  /\ last' = Op("join-project", c, j, user[c], NoTok, "ok")
  /\ UNCHANGED <<status, user, connectedUsers>>
  /\ UNCHANGED mvars
  /\ UNCHANGED svars

\* ------------------------------------------------- page-scoped live events
\* A variant that broadcasts with io.to(...), which echoes to the sender.
PageBroadcastRecipientsEcho(rms, c, p) == IoTo(rms, PageRoom(p))
\* A variant that sends only for senders that are members of the page room.
PageBroadcastRecipientsMembersOnly(rms, c, p) ==
  IF c \in rms[PageRoom(p)] THEN SocketTo(rms, c, PageRoom(p)) ELSE {}
PageBroadcastRecipients(rms, c, p) == SocketTo(rms, c, PageRoom(p))

PageEvents == {"document-update", "cursor-update", "selection-update", "whiteboard-update"}

\* A variant that holds the event back instead of sending it on receipt.
PageEventHeld(ev, c, p) ==
  /\ status[c] = "connected"
  /\ out' = {}
  /\ last' = Op(ev, c, p, user[c], NoTok, "ok")
  /\ UNCHANGED <<status, user, rooms, connectedUsers>>
  /\ UNCHANGED mvars
  /\ UNCHANGED svars

PageEvent(ev, c, p) ==
  /\ status[c] = "connected"
  /\ out' = { Emission(ev, PageRoom(p), PageBroadcastRecipients(rooms, c, p), c, user[c], {}) }
  /\ last' = Op(ev, c, p, user[c], NoTok, "ok")
  /\ UNCHANGED <<status, user, rooms, connectedUsers>>
  /\ UNCHANGED mvars
  /\ UNCHANGED svars

\* A page-scoped event whose data is missing: reading data.pageId throws a
\* TypeError before anything is emitted, and no handler catches it.  What the
\* runtime does with the uncaught error (the rejected promise of the async
\* document-update handler) is its own: it either ends the process, which
\* closes every socket and loses rooms, presence and the calls in flight, or
\* reports the error and goes on.
MalformedPageEvent(ev, c, exits) ==
  /\ status[c] = "connected"
  /\ out' = {}
  /\ last' = Op(ev, c, 0, user[c], NoTok, "TypeError")
  /\ IF exits
     THEN /\ status' = [d \in Conns |-> IF status[d] = "connected" THEN "closed" ELSE status[d]]
          /\ user' = [d \in Conns |-> 0]
          /\ rooms' = [r \in Room |-> {}]
          /\ connectedUsers' = EmptyMap
          /\ tasks' = <<>>
          /\ UNCHANGED <<notifications, now>>
     ELSE /\ UNCHANGED <<status, user, rooms, connectedUsers>>
          /\ UNCHANGED mvars
  /\ UNCHANGED svars

\* document-update: the payload's content is the sequence of the data-id
\* values of its mention markers.  The broadcast is sent first; then
\* detectMentions extracts the targets and, if there are any, goes on
\* asynchronously (its first await is the page lookup).
MarkerIds == Users \cup {NoSuchUser}
\* The payloads with no, one and two mention markers.
Contents == {<<>>} \cup {<<a>> : a \in MarkerIds}
                  \cup {<<a, b>> : a \in MarkerIds, b \in MarkerIds}

\* A variant that does not drop the markers naming the author.
ExtractMentionsKeepAuthor(content, mentionedByUserId) ==
  SelectSeq(content, LAMBDA userId : userId # Absent)
ExtractMentions(content, mentionedByUserId) ==
  SelectSeq(content, LAMBDA userId : userId # Absent /\ userId # mentionedByUserId)

\* The document-update handlers suspended at `await this.detectMentions(...)`:
\* each call in flight is awaited by the handler that made it.
AwaitedTasks(ts) == 1..Len(ts)

Task(mentions, pageId, mentionedByUserId) ==
  [mentions |-> mentions, pageId |-> pageId,
   mentionedBy |-> mentionedByUserId, pc |-> "lookup"]

\* A variant that runs mention detection first and broadcasts only when
\* there is nothing to wait for.
DocumentUpdateWithMentionsFirst(c, p, content) ==
  /\ status[c] = "connected"
  /\ last' = [op |-> "document-update", conn |-> c, key |-> p, user |-> user[c],
              tok |-> NoTok, err |-> "ok", content |-> content]
  /\ LET mentions == ExtractMentions(content, user[c])
     IN IF mentions = <<>>
        THEN /\ tasks' = tasks
             /\ out' = { Emission("document-update", PageRoom(p),
                           PageBroadcastRecipients(rooms, c, p), c, user[c], {}) }
        ELSE /\ tasks' = Append(tasks, Task(mentions, p, user[c]))
             /\ out' = {}
  /\ UNCHANGED <<status, user, rooms, connectedUsers, notifications, now>>
  /\ UNCHANGED svars

DocumentUpdateWith(c, p, content) ==
  /\ status[c] = "connected"
  /\ out' = { Emission("document-update", PageRoom(p),
                        PageBroadcastRecipients(rooms, c, p), c, user[c], {}) }
  /\ last' = [op |-> "document-update", conn |-> c, key |-> p, user |-> user[c],
              tok |-> NoTok, err |-> "ok", content |-> content]
  /\ LET mentions == ExtractMentions(content, user[c])
     IN IF mentions = <<>>
        THEN tasks' = tasks
        ELSE tasks' = Append(tasks, Task(mentions, p, user[c]))
  /\ UNCHANGED <<status, user, rooms, connectedUsers, notifications, now>>
  /\ UNCHANGED svars

\* A document-update whose payload carries no mention marker.
DocumentUpdate(c, p) == DocumentUpdateWith(c, p, <<>>)
CursorUpdate(c, p) == PageEvent("cursor-update", c, p)
SelectionUpdate(c, p) == PageEvent("selection-update", c, p)
WhiteboardUpdate(c, p) == PageEvent("whiteboard-update", c, p)

\* ------------------------------------------------------ leave-workspace
LeaveWorkspacePresence(cu, w, u) ==
  IF MapHas(cu, w)
  THEN LET users == cu[w] \ {u}
       IN IF users = {} THEN MapDelete(cu, w) ELSE MapSet(cu, w, users)
  ELSE cu

UserLeftRecipients(rms, c, w) == SocketTo(rms, c, WorkspaceRoom(w))

LeaveWorkspace(c, w) ==
  /\ status[c] = "connected"
  /\ rooms' = SocketLeave(rooms, c, WorkspaceRoom(w))
  /\ connectedUsers' = LeaveWorkspacePresence(connectedUsers, w, user[c])
  /\ out' = { Emission("user-left", WorkspaceRoom(w),
                       UserLeftRecipients(rooms', c, w), c, user[c], {}) }
  /\ last' = Op("leave-workspace", c, w, user[c], NoTok, "ok")
  /\ UNCHANGED <<status, user>>
  /\ UNCHANGED mvars
  /\ UNCHANGED svars

\* ---------------------------------------------- leave-page, leave-project
LeavePage(c, p) ==
  /\ status[c] = "connected"
  /\ rooms' = SocketLeave(rooms, c, PageRoom(p))
  /\ out' = {}
  /\ last' = Op("leave-page", c, p, user[c], NoTok, "ok")
  /\ UNCHANGED <<status, user, connectedUsers>>
  /\ UNCHANGED mvars
  /\ UNCHANGED svars

LeaveProject(c, j) ==
  /\ status[c] = "connected"
  /\ rooms' = SocketLeave(rooms, c, ProjectRoom(j))
  /\ out' = {}
  /\ last' = Op("leave-project", c, j, user[c], NoTok, "ok")
  /\ UNCHANGED <<status, user, connectedUsers>>
  /\ UNCHANGED mvars
  /\ UNCHANGED svars

\* ------------------------------------------------------------ disconnect
\* connectedUsers.forEach: every bucket that holds the user loses it, and is
\* deleted when that empties it.
DisconnectWorkspaces(cu, u) == {w \in DOMAIN cu : u \in cu[w]}

\* A variant whose disconnect handler leaves the presence map alone.
DisconnectPresenceKeep(cu, u) == cu
DisconnectPresence(cu, u) ==
  [w \in {x \in DOMAIN cu : ~(u \in cu[x] /\ cu[x] \ {u} = {})} |-> cu[w] \ {u}]

Disconnect(c) ==
  /\ status[c] = "connected"
  /\ status' = [status EXCEPT ![c] = "closed"]
  /\ rooms' = SocketLeaveAll(rooms, c)
  /\ connectedUsers' = DisconnectPresence(connectedUsers, user[c])
  /\ out' = { Emission("user-left", WorkspaceRoom(w),
                       UserLeftRecipients(rooms', c, w), c, user[c], {})
              : w \in DisconnectWorkspaces(connectedUsers, user[c]) }
  /\ last' = Op("disconnect", c, 0, user[c], NoTok, "ok")
  /\ user' = [user EXCEPT ![c] = 0]
  /\ UNCHANGED mvars
  /\ UNCHANGED svars

\* ------------------------------------------- server-originated emissions
\* The public emit* methods are called by the REST services; they send with
\* io.to(room), which excludes nobody, and touch neither rooms nor presence.
\* An emission that no client sent has from = 0.
ActivityRecipients(rms, w) == IoTo(rms, WorkspaceRoom(w))

EmitActivityEvent(w) ==
  /\ out' = {Emission("activity-update", WorkspaceRoom(w),
                       ActivityRecipients(rooms, w), 0, 0, {})}
  /\ last' = Op("emitActivityEvent", 0, w, 0, NoTok, "ok")
  /\ UNCHANGED <<status, user, rooms, connectedUsers>>
  /\ UNCHANGED mvars
  /\ UNCHANGED svars

\* A variant that notifies every connected user instead of the assignee.
TaskAssignmentRecipientsAll(rms, u) == UNION {IoTo(rms, UserRoom(v)) : v \in Users}
TaskAssignmentRecipients(rms, u) == IoTo(rms, UserRoom(u))

EmitTaskAssignmentNotification(u) ==
  /\ out' = {Emission("task-assigned-notification", UserRoom(u),
                       TaskAssignmentRecipients(rooms, u), 0, u, {})}
  /\ last' = Op("emitTaskAssignmentNotification", 0, 0, u, NoTok, "ok")
  /\ UNCHANGED <<status, user, rooms, connectedUsers>>
  /\ UNCHANGED mvars
  /\ UNCHANGED svars

\* A variant that omits the second emit, the one to the workspace room.
AnalyticsEmissionsProjectOnly(rms, j, w) ==
  {Emission("project-analytics-update", ProjectRoom(j),
            IoTo(rms, ProjectRoom(j)), 0, 0, {})}
\* One emit to the project room and, when a workspace id is given, a second
\* emit of the same payload to the workspace room.
AnalyticsEmissions(rms, j, w) ==
  {Emission("project-analytics-update", ProjectRoom(j),
            IoTo(rms, ProjectRoom(j)), 0, 0, {})}
    \cup IF w # Absent
         THEN {Emission("project-analytics-update", WorkspaceRoom(w),
                        IoTo(rms, WorkspaceRoom(w)), 0, 0, {})}
         ELSE {}

\* last.key is the pair of the call's arguments (projectId, workspaceId).
EmitProjectAnalyticsUpdate(j, w) ==
  /\ out' = AnalyticsEmissions(rooms, j, w)
  /\ last' = Op("emitProjectAnalyticsUpdate", 0, <<j, w>>, 0, NoTok, "ok")
  /\ UNCHANGED <<status, user, rooms, connectedUsers>>
  /\ UNCHANGED mvars
  /\ UNCHANGED svars

\* ---------------------------------------------------- publishing services
\* activity.service and the task service keep their own reference to the
\* server, null until setCollaborationServer is called.  After its database
\* write a service publishes inside `if (collaborationServer) try {...}
\* catch`.  `throws` says whether the emit* method raises.
MaxDocs == 1
TaskIds == 1..MaxDocs
ServiceModules == {"activity", "task"}

SetCollaborationServer(m) ==
  /\ collaborationServer' = [collaborationServer EXCEPT ![m] = TRUE]
  /\ out' = {}
  /\ last' = Op("setCollaborationServer", 0, m, 0, NoTok, "ok")
  /\ UNCHANGED <<status, user, rooms, connectedUsers, store>>
  /\ UNCHANGED mvars

\* A variant without the null check and the try/catch: a missing server or a
\* raising emit method is an error of the caller.
UnguardedEmit(server, throws, emissions) ==
  IF server /\ ~throws
  THEN [out |-> emissions, emit |-> "sent", error |-> FALSE]
  ELSE [out |-> {}, emit |-> IF server THEN "threw" ELSE "no server", error |-> TRUE]
\* What the guarded call sends and whether an error reaches the caller.
GuardedEmit(server, throws, emissions) ==
  IF server /\ ~throws
  THEN [out |-> emissions, emit |-> "sent", error |-> FALSE]
  ELSE [out |-> {}, emit |-> IF server THEN "threw" ELSE "no server", error |-> FALSE]

ServiceOp(op, key, u, g) ==
  [op |-> op, conn |-> 0, key |-> key, user |-> u, tok |-> NoTok,
   err |-> IF g.error THEN "emit failed" ELSE "ok", emit |-> g.emit]

\* createActivityService for an existing user: save, then publish.
CreateActivityService(w, u, throws) ==
  /\ store.activities < MaxDocs
  /\ LET g == GuardedEmit(collaborationServer["activity"], throws,
                          {Emission("activity-update", WorkspaceRoom(w),
                                    ActivityRecipients(rooms, w), 0, 0, {})})
     IN /\ store' = [store EXCEPT !.activities = @ + 1]
        /\ out' = g.out
        /\ last' = ServiceOp("createActivityService", w, u, g)
  /\ UNCHANGED <<status, user, rooms, connectedUsers, collaborationServer>>
  /\ UNCHANGED mvars

\* createTaskService / updateTaskService up to the analytics publication:
\* the task is saved (or updated), the analytics update is published, and an
\* assignee other than the caller is still to be notified.
SaveTask(op, t, j, w, assignee, throws, state) ==
  /\ LET g == GuardedEmit(collaborationServer["task"], throws,
                          AnalyticsEmissions(rooms, j, w))
     IN /\ store' = [store EXCEPT !.tasks[t] = state,
                                  !.assigning = IF assignee # Absent
                                                THEN @ \cup {assignee} ELSE @]
        /\ out' = g.out
        /\ last' = ServiceOp(op, t, assignee, g)
  /\ UNCHANGED <<status, user, rooms, connectedUsers, collaborationServer>>
  /\ UNCHANGED mvars

CreateTaskService(t, j, w, assignee, throws) ==
  /\ store.tasks[t] = "none"
  /\ SaveTask("createTaskService", t, j, w, assignee, throws, "created")

UpdateTaskService(t, j, w, assignee, throws) ==
  /\ store.tasks[t] # "none"
  /\ SaveTask("updateTaskService", t, j, w, assignee, throws, "updated")

\* The rest of create / update: the assignment notification is stored (or
\* not) and the assignee is told; all of it inside one try/catch.
NotifyAssignee(u, stored, throws) ==
  /\ u \in store.assigning
  /\ LET g == IF stored
              THEN GuardedEmit(collaborationServer["task"], throws,
                               {Emission("task-assigned-notification", UserRoom(u),
                                         TaskAssignmentRecipients(rooms, u), 0, u, {})})
              ELSE [out |-> {}, emit |-> "not stored", error |-> FALSE]
     IN /\ store' = [store EXCEPT !.assigning = @ \ {u}]
        /\ out' = g.out
        /\ last' = ServiceOp("notifyAssignee", 0, u, g)
  /\ UNCHANGED <<status, user, rooms, connectedUsers, collaborationServer>>
  /\ UNCHANGED mvars

\* deleteTaskService of an existing task: delete, then publish.
DeleteTaskService(t, j, w, throws) ==
  /\ store.tasks[t] # "none"
  /\ LET g == GuardedEmit(collaborationServer["task"], throws,
                          AnalyticsEmissions(rooms, j, w))
     IN /\ store' = [store EXCEPT !.tasks[t] = "none"]
        /\ out' = g.out
        /\ last' = ServiceOp("deleteTaskService", t, 0, g)
  /\ UNCHANGED <<status, user, rooms, connectedUsers, collaborationServer>>
  /\ UNCHANGED mvars

\* ------------------------------------------------------ mention detection
\* detectMentions and createMentionNotificationService, cut at their awaits.
\* A continuation runs to the next await without interruption: the page and
\* workspace lookups ("lookup"), then per target the two user lookups and the
\* search for a recent mention ("find"), then the save ("save").  The emit
\* follows the service's return in the same continuation.
Window == 5
MaxTime == 6

Notification(userId, pageId, mentionedBy, createdAt) ==
  [userId |-> userId, pageId |-> pageId, mentionedBy |-> mentionedBy,
   createdAt |-> createdAt]

\* A variant of the search that ignores the age of the earlier mention.
RecentMentionAnyAge(ns, userId, pageId, mentionedBy, t) ==
  \E n \in BagToSet(ns) :
    /\ n.userId = userId
    /\ n.pageId = pageId
    /\ n.mentionedBy = mentionedBy
\* Notification.findOne: a mention of userId on pageId by mentionedBy whose
\* createdAt is not before t - Window.
RecentMention(ns, userId, pageId, mentionedBy, t) ==
  \E n \in BagToSet(ns) :
    /\ n.userId = userId
    /\ n.pageId = pageId
    /\ n.mentionedBy = mentionedBy
    /\ n.createdAt >= t - Window

RemoveAt(s, k) == SubSeq(s, 1, k - 1) \o SubSeq(s, k + 1, Len(s))

\* The for loop moves on to the next target; the call ends after the last.
\* A variant in which the loop ends with the target in hand.
NextTargetAbort(ts, k) == RemoveAt(ts, k)
NextTarget(ts, k) ==
  IF Len(ts[k].mentions) = 1
  THEN RemoveAt(ts, k)
  ELSE [ts EXCEPT ![k].mentions = Tail(@), ![k].pc = "find"]

MentionOp(op, t, err) ==
  [op |-> op, conn |-> 0, key |-> t.pageId, user |-> t.mentionedBy,
   tok |-> NoTok, err |-> err, target |-> Head(t.mentions)]

MentionEmission(rms, mentionedUserId) ==
  Emission("mention-notification", UserRoom(mentionedUserId),
           IoTo(rms, UserRoom(mentionedUserId)), 0, mentionedUserId, {})

\* Page.findById and Workspace.findById; the documents are the environment's.
MentionLookup(k, found) ==
  /\ k \in 1..Len(tasks)
  /\ tasks[k].pc = "lookup"
  /\ tasks' = IF found THEN [tasks EXCEPT ![k].pc = "find"] ELSE RemoveAt(tasks, k)
  /\ out' = {}
  /\ last' = MentionOp("detectMentions", tasks[k], IF found THEN "ok" ELSE "no page")
  /\ UNCHANGED <<status, user, rooms, connectedUsers, notifications, now>>
  /\ UNCHANGED svars

\* The user lookups and Notification.findOne.  The author's record exists
\* (the handshake resolved it); an unknown target throws and the loop's
\* catch moves on; a recent mention makes the service return it,
\* after which detectMentions emits; otherwise the save is issued.
MentionFind(k) ==
  /\ k \in 1..Len(tasks)
  /\ tasks[k].pc = "find"
  /\ LET t == tasks[k]
         mentionedUserId == Head(t.mentions)
     IN IF FindById(mentionedUserId) = 0
        THEN /\ tasks' = NextTarget(tasks, k)
             /\ out' = {}
             /\ last' = MentionOp("createMentionNotification", t, "Mentioned user not found")
        ELSE IF RecentMention(notifications, mentionedUserId, t.pageId, t.mentionedBy, now)
        THEN /\ tasks' = NextTarget(tasks, k)
             /\ out' = {MentionEmission(rooms, mentionedUserId)}
             /\ last' = MentionOp("createMentionNotification", t, "recent")
        ELSE /\ tasks' = [tasks EXCEPT ![k].pc = "save"]
             /\ out' = {}
             /\ last' = MentionOp("createMentionNotification", t, "saving")
  /\ UNCHANGED <<status, user, rooms, connectedUsers, notifications, now>>
  /\ UNCHANGED svars

\* notification.save(): on success the document exists with createdAt = now
\* and detectMentions emits; on failure the error reaches the loop's catch.
MentionSave(k, saved) ==
  /\ k \in 1..Len(tasks)
  /\ tasks[k].pc = "save"
  /\ LET t == tasks[k]
         mentionedUserId == Head(t.mentions)
     IN IF saved
        THEN /\ notifications' = notifications (+) SetToBag(
                   {Notification(mentionedUserId, t.pageId, t.mentionedBy, now)})
             /\ out' = {MentionEmission(rooms, mentionedUserId)}
             /\ last' = MentionOp("save", t, "ok")
        ELSE /\ notifications' = notifications
             /\ out' = {}
             /\ last' = MentionOp("save", t, "save failed")
  /\ tasks' = NextTarget(tasks, k)
  /\ UNCHANGED <<status, user, rooms, connectedUsers, now>>
  /\ UNCHANGED svars

\* A minute passes.
Tick ==
  /\ now < MaxTime
  /\ now' = now + 1
  /\ out' = {}
  /\ last' = Op("tick", 0, 0, 0, NoTok, "ok")
  /\ UNCHANGED <<status, user, rooms, connectedUsers, tasks, notifications>>
  /\ UNCHANGED svars

\* ------------------------------------------------------- specification
Init ==
  /\ collaborationServer = [m \in ServiceModules |-> FALSE]
  /\ store = [activities |-> 0, tasks |-> [t \in TaskIds |-> "none"], assigning |-> {}]
  /\ tasks = <<>>
  /\ notifications = EmptyBag
  /\ now = 0
  /\ status = [c \in Conns |-> "idle"]
  /\ user = [c \in Conns |-> 0]
  /\ rooms = [r \in Room |-> {}]
  /\ connectedUsers = EmptyMap
  /\ out = {}
  /\ last = Op("init", 0, 0, 0, NoTok, "ok")

\* The token the login endpoints issue for user u: the payload carries _id.
IssuedToken(u) == Token("ok", IssuedClaims(u))
IssuedTokens == {IssuedToken(u) : u \in Users}

\* Workspace membership and presence: clients that log in (or fail to), join
\* and leave workspaces, and drop.
Next ==
  \/ \E c \in Conns, tok \in IssuedTokens \cup BadTokens : Handshake(c, tok)
  \/ \E c \in Conns, w \in Workspaces : JoinWorkspace(c, w)
  \/ \E c \in Conns, w \in Workspaces : LeaveWorkspace(c, w)
  \/ \E c \in Conns : Disconnect(c)

Spec == Init /\ [][Next]_vars

\* Live editing: clients that log in, join and leave pages, send page-scoped
\* events, and drop.
NextPage ==
  \/ \E c \in Conns, tok \in IssuedTokens \cup BadTokens : Handshake(c, tok)
  \/ \E c \in Conns, p \in Pages : JoinPage(c, p)
  \/ \E c \in Conns, p \in Pages : LeavePage(c, p)
  \/ \E c \in Conns, p \in Pages : DocumentUpdate(c, p)
  \/ \E c \in Conns, p \in Pages : CursorUpdate(c, p)
  \/ \E c \in Conns, p \in Pages : SelectionUpdate(c, p)
  \/ \E c \in Conns, p \in Pages : WhiteboardUpdate(c, p)
  \/ \E c \in Conns : Disconnect(c)

SpecPage == Init /\ [][NextPage]_vars

\* The handshake with every token shape, followed by joins and leaves of one
\* room of each kind.
NumAuthConns == 1
AuthConns == 1..NumAuthConns

NextAuth ==
  \/ \E c \in AuthConns, tok \in Tokens : Handshake(c, tok)
  \/ \E c \in AuthConns : JoinWorkspace(c, 1)
  \/ \E c \in AuthConns : JoinPage(c, 1)
  \/ \E c \in AuthConns : JoinProject(c, 1)
  \/ \E c \in AuthConns : LeaveWorkspace(c, 1)
  \/ \E c \in AuthConns : LeavePage(c, 1)
  \/ \E c \in AuthConns : LeaveProject(c, 1)
  \/ \E c \in AuthConns : Disconnect(c)

SpecAuth == Init /\ [][NextAuth]_vars

\* Server-originated events: clients that log in, join and leave one
\* workspace and one project, and drop, while the REST services call the
\* emit* methods for any workspace, project and user.
NextEmit ==
  \/ \E c \in Conns, tok \in IssuedTokens \cup BadTokens : Handshake(c, tok)
  \/ \E c \in Conns : JoinWorkspace(c, 1)
  \/ \E c \in Conns : LeaveWorkspace(c, 1)
  \/ \E c \in Conns : JoinProject(c, 1)
  \/ \E c \in Conns : LeaveProject(c, 1)
  \/ \E c \in Conns : Disconnect(c)
  \/ \E w \in Workspaces : EmitActivityEvent(w)
  \/ \E u \in Users : EmitTaskAssignmentNotification(u)
  \/ \E j \in Projects, w \in Workspaces \cup {Absent} : EmitProjectAnalyticsUpdate(j, w)

SpecEmit == Init /\ [][NextEmit]_vars

\* Malformed payloads: clients that log in, join and leave page 1, send
\* page-scoped events with and without data, and drop.
NextMalformed ==
  \/ \E c \in Conns, tok \in IssuedTokens : Handshake(c, tok)
  \/ \E c \in Conns : JoinPage(c, 1)
  \/ \E c \in Conns : LeavePage(c, 1)
  \/ \E c \in Conns, ev \in PageEvents : PageEvent(ev, c, 1)
  \/ \E c \in Conns, ev \in PageEvents, exits \in BOOLEAN : MalformedPageEvent(ev, c, exits)
  \/ \E c \in Conns : Disconnect(c)

SpecMalformed == Init /\ [][NextMalformed]_vars

\* Publishing: clients that log in and join workspace 1 and project 1 while
\* the REST services create activities and create, update and delete tasks
\* (assigned to user 1 or to nobody), before and after the server has been
\* registered with them.
NextPublish ==
  \/ \E c \in Conns \cap Users : Handshake(c, IssuedToken(c))
  \/ \E c \in Conns : JoinWorkspace(c, 1)
  \/ \E c \in Conns : JoinProject(c, 1)
  \/ \E m \in ServiceModules : SetCollaborationServer(m)
  \/ \E throws \in BOOLEAN : CreateActivityService(1, 1, throws)
  \/ \E t \in TaskIds, a \in {1, Absent}, throws \in BOOLEAN :
       CreateTaskService(t, 1, 1, a, throws)
  \/ \E t \in TaskIds, a \in {1, Absent}, throws \in BOOLEAN :
       UpdateTaskService(t, 1, 1, a, throws)
  \/ \E u \in Users, stored \in BOOLEAN, throws \in BOOLEAN : NotifyAssignee(u, stored, throws)
  \/ \E t \in TaskIds, throws \in BOOLEAN : DeleteTaskService(t, 1, 1, throws)

SpecPublish == Init /\ [][NextPublish]_vars

\* Mentions in flight together: connection c logs in as user c and may join
\* page 1; any connection sends document-updates without markers for page 1
\* and user 1 also sends them with one marker, while up to MaxInFlight
\* earlier detectMentions calls are still at their awaits.
MaxInFlight == 2

NextRace ==
  \/ \E c \in Conns \cap Users : Handshake(c, IssuedToken(c))
  \/ \E c \in Conns : JoinPage(c, 1)
  \/ \E c \in Conns : DocumentUpdateWith(c, 1, <<>>)
  \/ \E c \in Conns, B \in MarkerIds :
       Len(tasks) < MaxInFlight /\ user[c] = 1 /\ DocumentUpdateWith(c, 1, <<B>>)
  \/ \E k \in 1..MaxInFlight, found \in BOOLEAN : MentionLookup(k, found)
  \/ \E k \in 1..MaxInFlight : MentionFind(k)
  \/ \E k \in 1..MaxInFlight, saved \in BOOLEAN : MentionSave(k, saved)

SpecRace == Init /\ [][NextRace]_vars

\* Mentions, one update at a time: connection c logs in as user c; user 1
\* sends document-updates for page 1 with and without mention markers, each
\* after the mention processing of the one before has ended; time passes and
\* tasks are assigned.
NextMention ==
  \/ \E c \in Conns \cap Users : Handshake(c, IssuedToken(c))
  \/ \E c \in Conns, content \in Contents :
       tasks = <<>> /\ user[c] = 1 /\ DocumentUpdateWith(c, 1, content)
  \/ \E found \in BOOLEAN : MentionLookup(1, found)
  \/ MentionFind(1)
  \/ \E saved \in BOOLEAN : MentionSave(1, saved)
  \/ \E c \in Conns : Disconnect(c)
  \/ \E u \in Users : EmitTaskAssignmentNotification(u)
  \/ Tick

SpecMention == Init /\ [][NextMention]_vars

\* =================================================================== claims
Live(c) == status[c] = "connected"
\* The live connections of user u that are members of workspace room w.
MembersOf(st, usr, rms, u, w) ==
  {c \in Conns : st[c] = "connected" /\ usr[c] = u /\ c \in rms[WorkspaceRoom(w)]}
UserJoined(o) == {e \in o : e.ev = "user-joined"}
UserLeft(o) == {e \in o : e.ev = "user-left"}
CurrentUsers(o) == {e \in o : e.ev = "current-users"}

\* C1: a page-scoped live event (document-update, cursor-update,
\* selection-update, whiteboard-update) sent by connection C for page P is
\* emitted once, as that event, to every other member of page room P and not
\* to C, also when C is a member of P.
C1_NoEchoFanOut ==
  last.op \in PageEvents =>
    /\ Cardinality(out) = 1
    /\ \A e \in out :
         /\ e.ev = last.op
         /\ e.from = last.conn
         /\ \A d \in Conns :
              d \in e.to <=> (d # last.conn /\ d \in rooms[PageRoom(last.key)])

\* C1 witness: a document-update by a member of the page room that reaches
\* another member.
C1_Witness ==
  /\ last.op = "document-update"
  /\ last.conn \in rooms[PageRoom(last.key)]
  /\ \E e \in out : e.to # {}

C3_UserLeftOnlyAtLastLeave ==
  [][\A e \in UserLeft(out') :
       last'.conn \in rooms[e.room] =>
         MembersOf(status', user', rooms', e.userId, e.room[2]) = {}]_vars

\* C4: user-joined for (U, W) is emitted only when U was not already in the
\* presence set of W.
C4_UserJoinedOnlyAtFirstJoin ==
  [][\A e \in UserJoined(out') :
       e.userId \notin MapGet(connectedUsers, e.room[2])]_vars

\* C5: the current-users snapshot sent on join-workspace(W) is the presence
\* set of W immediately before the join.
C5_SnapshotBeforeJoin ==
  [][\A e \in CurrentUsers(out') :
       e.users = MapGet(connectedUsers, last'.key)]_vars

\* The presence map and the user-left emissions of explicit leave-workspace
\* calls by connection c (of user u) for every workspace of the set ws, one
\* after the other.
RECURSIVE LeaveAllPresence(_, _, _)
LeaveAllPresence(cu, ws, u) ==
  IF ws = {} THEN cu
  ELSE LET w == CHOOSE x \in ws : TRUE
       IN LeaveAllPresence(LeaveWorkspacePresence(cu, w, u), ws \ {w}, u)

LeaveAllEmissions(rms, c, ws, u) ==
  { Emission("user-left", WorkspaceRoom(w),
             UserLeftRecipients(SocketLeave(rms, c, WorkspaceRoom(w)), c, w), c, u, {})
    : w \in ws }

JoinedWorkspaces(rms, c) == {w \in Workspaces : c \in rms[WorkspaceRoom(w)]}

C7_NoCrossTalkOnReconnect ==
  [][last'.op = "disconnect" =>
       LET c1 == last'.conn
           u == user[c1]
       IN \A w \in Workspaces, c2 \in Conns \ {c1} :
            ( /\ {c1, c2} \subseteq MembersOf(status, user, rooms, u, w)
              /\ u \in MapGet(connectedUsers, w) )
            => /\ u \in MapGet(connectedUsers', w)
               /\ c2 \in rooms'[WorkspaceRoom(w)]
               /\ \A e \in UserLeft(out') : ~(e.userId = u /\ e.room = WorkspaceRoom(w))]_vars

\* C8: a user in the presence set of W has a live connection joined to
\* workspace room W; so after the disconnect of a user's only connection the
\* user is in no presence set, and no current-users snapshot names a user
\* without a live connection in that workspace.
C8_NoStalePresence ==
  /\ \A w \in DOMAIN connectedUsers : \A u \in connectedUsers[w] :
       MembersOf(status, user, rooms, u, w) # {}
  /\ \A e \in CurrentUsers(out) : \A u \in e.users :
       MembersOf(status, user, rooms, u, last.key) # {}
  /\ (last.op = "disconnect" /\ ~\E c \in Conns : Live(c) /\ user[c] = last.user)
       => \A w \in Workspaces : last.user \notin MapGet(connectedUsers, w)

\* C8 witness: the only connection of a user who was online in a workspace
\* has disconnected.
C8_Witness ==
  /\ last.op = "disconnect"
  /\ UserLeft(out) # {}
  /\ ~\E c \in Conns : Live(c) /\ user[c] = last.user
  /\ \E c \in Conns : Live(c)

\* C9: the user-joined emitted by join-workspace(W) of connection X goes to
\* other members of workspace room W only, never to X.
C9_NoOwnUserJoined ==
  \A e \in UserJoined(out) :
    /\ last.op = "join-workspace"
    /\ e.room = WorkspaceRoom(last.key)
    /\ last.conn \notin e.to
    /\ e.to \subseteq rooms[e.room] \ {last.conn}

\* C9 witness: a join-workspace whose user-joined reaches another member.
C9_Witness ==
  /\ last.op = "join-workspace"
  /\ \E e \in UserJoined(out) : e.to # {}
  /\ last.conn \in rooms[WorkspaceRoom(last.key)]

\* A credential that is validly signed, unexpired and whose identity claim
\* names an existing user.
ValidCredential(tok) == tok.kind = "ok" /\ \E u \in Users : DecodedUserId(tok.claims) = u

JoinOp(kind) ==
  CASE kind = "workspace" -> "join-workspace"
    [] kind = "page" -> "join-page"
    [] kind = "project" -> "join-project"
    [] OTHER -> "none"

\* C10: a handshake with a valid credential succeeds and leaves the
\* connection a member of its own user room and of no other room; a
\* connection enters a workspace, page or project room only by its own join
\* of that room.
C10_HandshakeJoinsOwnUserRoom ==
  /\ [](last.op = "handshake" /\ ValidCredential(last.tok) =>
          /\ status[last.conn] = "connected"
          /\ user[last.conn] = DecodedUserId(last.tok.claims)
          /\ RoomsOf(rooms, last.conn) = {UserRoom(user[last.conn])})
  /\ [][\A c \in Conns, r \in Room :
          (r[1] # "user" /\ c \in rooms'[r] /\ c \notin rooms[r]) =>
            (last'.conn = c /\ last'.op = JoinOp(r[1]) /\ last'.key = r[2])]_vars

\* C10 witness: a connection accepted with a token that carries its identity
\* in a claim other than userId.
C10_Witness ==
  /\ last.op = "handshake"
  /\ ValidCredential(last.tok)
  /\ last.tok.claims[1] = Absent
  /\ status[last.conn] = "connected"
  /\ last.conn \in rooms[UserRoom(user[last.conn])]

\* A credential that is absent, invalidly signed, expired, or none of whose
\* identity claims names an existing user.
InvalidCredential(tok) ==
  tok.kind # "ok" \/ \A f \in ClaimFields : tok.claims[f] \notin Users

\* C11: a handshake with an absent, invalidly signed or expired credential, or
\* one that resolves to no existing user, is rejected with an error; the
\* rejected connection is in no room, the rejection changes neither rooms nor
\* presence, no event of the connection is ever processed and the handshake is
\* not run again for it.
C11_RejectedHandshake ==
  /\ [](last.op = "handshake" /\ InvalidCredential(last.tok) =>
          /\ status[last.conn] = "rejected"
          /\ last.err \in {"Authentication error", "User not found"})
  /\ [](\A c \in Conns : status[c] = "rejected" =>
          RoomsOf(rooms, c) = {} /\ user[c] = 0)
  /\ [][(last'.op = "handshake" /\ last'.err # "ok") =>
          UNCHANGED <<rooms, connectedUsers>>]_vars
  /\ [][\A c \in Conns : status[c] = "rejected" =>
          status'[c] = "rejected" /\ last'.conn # c]_vars

\* C11 witness: a verified token whose identity claim names no user record
\* has been rejected.
C11_Witness ==
  /\ last.op = "handshake"
  /\ last.tok.kind = "ok"
  /\ DecodedUserId(last.tok.claims) = NoSuchUser
  /\ status[last.conn] = "rejected"

\* The candidate identity claims of a token that name an existing user.
Resolvable(tok) == {f \in ClaimFields : tok.claims[f] \in Users}
FirstOf(fs) == CHOOSE f \in fs : \A g \in fs : f <= g

\* C12: for a verified token the handshake succeeds with the identity of the
\* first candidate claim (userId, _id, id, sub in that order) that resolves to
\* an existing user, and fails only if no candidate resolves.
C12_FirstResolvableClaim ==
  (last.op = "handshake" /\ last.tok.kind = "ok") =>
    IF Resolvable(last.tok) = {}
    THEN status[last.conn] = "rejected"
    ELSE /\ status[last.conn] = "connected"
         /\ user[last.conn] = last.tok.claims[FirstOf(Resolvable(last.tok))]

\* The connections that receive a copy of event ev from the handler that ran
\* last, and the number of copies connection c receives.
Receivers(ev) == UNION {o.to : o \in {e \in out : e.ev = ev}}
Copies(ev, c) == Cardinality({e \in out : e.ev = ev /\ c \in e.to})

C14_AtMostOnce ==
  last.op \in {"emitActivityEvent", "emitProjectAnalyticsUpdate",
               "emitTaskAssignmentNotification"} =>
    \A c \in Conns, e \in out : Copies(e.ev, c) <= 1

\* C15: emitActivityEvent(W, a) delivers activity-update to exactly the
\* members of workspace room W; emitProjectAnalyticsUpdate(P, W) delivers
\* project-analytics-update to exactly the members of project room P or
\* workspace room W (of project room P alone when W is omitted); nothing else
\* is sent by these calls.
C15_InternalDestinations ==
  /\ last.op = "emitActivityEvent" =>
       /\ Receivers("activity-update") = rooms[WorkspaceRoom(last.key)]
       /\ \A e \in out : e.ev = "activity-update"
  /\ last.op = "emitProjectAnalyticsUpdate" =>
       /\ Receivers("project-analytics-update") =
            rooms[ProjectRoom(last.key[1])]
              \cup (IF last.key[2] # Absent
                    THEN rooms[WorkspaceRoom(last.key[2])] ELSE {})
       /\ \A e \in out : e.ev = "project-analytics-update"

\* C15 witness: an analytics update for project 1 and workspace 1 reached a
\* connection that is only in the workspace room and one that is only in the
\* project room, and not a live connection that is in neither.
C15_Witness ==
  /\ last.op = "emitProjectAnalyticsUpdate"
  /\ last.key = <<1, 1>>
  /\ \E c, d \in Conns :
       /\ c \in rooms[WorkspaceRoom(1)] \ rooms[ProjectRoom(1)]
       /\ d \in rooms[ProjectRoom(1)] \ rooms[WorkspaceRoom(1)]
       /\ {c, d} \subseteq Receivers("project-analytics-update")

\* The steps of mention processing, and the notifications of one
\* (target, page, author).
MentionSteps == {"detectMentions", "createMentionNotification", "save"}
MentionsOf(ns, userId, pageId, mentionedBy) ==
  {n \in BagToSet(ns) : /\ n.userId = userId
                        /\ n.pageId = pageId
                        /\ n.mentionedBy = mentionedBy}

\* Only a successful save changes the collection, and it adds exactly one
\* document: for the target in hand, created now.
SavePersistsOne ==
  IF last'.op = "save" /\ last'.err = "ok"
  THEN notifications' = notifications (+)
         SetToBag({Notification(last'.target, last'.key, last'.user, now)})
  ELSE notifications' = notifications

C19_FiveMinuteSuppression ==
  /\ [][last'.op = "createMentionNotification" =>
          LET earlier == MentionsOf(notifications, last'.target, last'.key, last'.user)
          IN /\ (\E n \in earlier : now - n.createdAt < Window)
                  => last'.err = "recent" /\ \A k \in 1..Len(tasks') : tasks'[k].pc # "save"
             /\ (last'.target \in Users /\ \A n \in earlier : now - n.createdAt > Window)
                  => last'.err = "saving"]_vars
  /\ [][(last'.op = "save" /\ last'.err = "ok") =>
          BagCardinality(notifications') = BagCardinality(notifications) + 1]_vars
  /\ [](\A n \in BagToSet(notifications) :
          /\ CopiesIn(n, notifications) = 1
          /\ \A m \in MentionsOf(notifications, n.userId, n.pageId, n.mentionedBy) :
               m = n \/ m.createdAt - n.createdAt > Window
                     \/ n.createdAt - m.createdAt > Window)

\* C19 witness: a second notification of the same target, page and author
\* has just been persisted, more than Window minutes after the first.
C19_Witness ==
  /\ last.op = "save"
  /\ last.err = "ok"
  /\ Cardinality(MentionsOf(notifications, last.target, last.key, last.user)) = 2

\* C20: a mention-notification is emitted only in a step that persists a new
\* notification for its target, page and author.
C20_EmitOnlyWhenPersisted ==
  [][\A e \in out' : e.ev = "mention-notification" =>
       notifications' = notifications (+)
         SetToBag({Notification(e.userId, last'.key, last'.user, now)})]_vars

\* The events a handler emits while it runs.
EventsOf(op) ==
  CASE op \in PageEvents -> {op}
    [] op = "join-workspace" -> {"user-joined", "current-users"}
    [] op \in {"leave-workspace", "disconnect"} -> {"user-left"}
    [] OTHER -> {}

\* C16: whatever a step delivers is an event of the handler running in that
\* step, sent by that handler's connection, and goes only to live connections
\* that are members of the event's room at that moment; so a connection that
\* is not a member then does not get the event, and a later join-page,
\* leave-page or handshake (a reconnect) delivers nothing.  A connection that
\* is not live is a member of no room.
C16_NoReplay ==
  /\ [](\A c \in Conns : ~Live(c) => RoomsOf(rooms, c) = {})
  /\ [][\A e \in out' :
          /\ e.ev \in EventsOf(last'.op)
          /\ e.from = last'.conn
          /\ e.to \subseteq rooms'[e.room]
          /\ \A d \in e.to : status'[d] = "connected"]_vars
  /\ [][last'.op \in {"handshake", "join-page", "leave-page"} => out' = {}]_vars

\* C16 witness: a connection joined page 1 of which another live connection
\* was already a member, and received nothing.
C16_Witness ==
  /\ last.op = "join-page"
  /\ out = {}
  /\ \E d \in Conns \ {last.conn} : Live(d) /\ d \in rooms[PageRoom(last.key)]

\* C17: when two page-scoped events for the same page are processed one
\* after the other, the step of the first emits the first event and the step
\* of the second emits the second, each to every other member of the page
\* room at its time; emissions reach a connection in the order they are made,
\* so a connection that receives both receives them in processing order.
C17_PerRoomOrder ==
  [][(/\ last.op \in PageEvents
      /\ last'.op \in PageEvents
      /\ last'.key = last.key)
     => /\ \A e \in out : e.ev = last.op /\ e.from = last.conn
        /\ \A e \in out' : e.ev = last'.op /\ e.from = last'.conn
        /\ Receivers(last.op) = rooms[PageRoom(last.key)] \ {last.conn}
        /\ UNION {e.to : e \in out'} = rooms'[PageRoom(last'.key)] \ {last'.conn}]_vars

\* C17 witness: a document-update sent by a member of the page room has
\* been processed and reached another user's connection in that room.
C17_Witness ==
  /\ last.op = "document-update"
  /\ \E d \in Receivers("document-update") :
       /\ d # last.conn
       /\ last.conn \in rooms[PageRoom(last.key)]
       /\ user[d] # user[last.conn]

\* C21: the targets collected from one document-update are distinct: several
\* markers for the same user make one mention of that user.
C21_DistinctTargets ==
  \A k \in 1..Len(tasks) :
    \A i \in 1..Len(tasks[k].mentions), j \in 1..Len(tasks[k].mentions) :
      i # j => tasks[k].mentions[i] # tasks[k].mentions[j]

JoinLeaveOps == {"join-workspace", "join-page", "join-project",
                 "leave-workspace", "leave-page", "leave-project"}

\* C24: a join or leave applied again by the same connection for the same
\* room, right after the first application, changes neither room membership
\* nor the presence of any workspace.
C24_Idempotent ==
  [][(/\ last.op \in JoinLeaveOps
      /\ last'.op = last.op
      /\ last'.conn = last.conn
      /\ last'.key = last.key)
     => rooms' = rooms /\ connectedUsers' = connectedUsers]_vars

\* C24 witness: a connection has joined workspace 1 and is a member and
\* present there, the state in which a second join-workspace finds it.
C24_Witness ==
  /\ last.op = "join-workspace"
  /\ last.conn \in rooms[WorkspaceRoom(last.key)]
  /\ last.user \in MapGet(connectedUsers, last.key)

\* C28: leave-workspace(W) by a connection that is not a member of workspace
\* room W changes neither the presence of W nor any room membership and
\* delivers no user-left to anyone.
C28_LeaveByNonMember ==
  [][(last'.op = "leave-workspace" /\ last'.conn \notin rooms[WorkspaceRoom(last'.key)])
     => /\ rooms' = rooms
        /\ connectedUsers' = connectedUsers
        /\ \A e \in out' : e.to = {}]_vars

\* C29: a page-scoped live event for page P reaches every current member of
\* page room P other than the sender, also when the sender is not a member of
\* P, and sending changes no room membership.
C29_SendWithoutMembership ==
  /\ [](last.op \in PageEvents =>
          /\ out # {}
          /\ Receivers(last.op) = rooms[PageRoom(last.key)] \ {last.conn})
  /\ [][last'.op \in PageEvents => rooms' = rooms]_vars

\* C29 witness: a connection that is not in page room 1 sent a cursor-update
\* for page 1 and a member received it.
C29_Witness ==
  /\ last.op = "cursor-update"
  /\ last.conn \notin rooms[PageRoom(last.key)]
  /\ Receivers("cursor-update") # {}

\* C30: when the service call for one target fails (the target is unknown or
\* the save fails), nothing is emitted for that target and the loop goes on
\* with the next target, or ends if there is none; a successful save emits one
\* mention-notification, to the target it was for.
C30_PerTargetIsolation ==
  /\ [][(/\ last'.op \in {"createMentionNotification", "save"}
         /\ last'.err \in {"Mentioned user not found", "save failed"})
        => /\ out' = {}
           /\ \E k \in 1..Len(tasks) :
                /\ Head(tasks[k].mentions) = last'.target
                /\ IF Len(tasks[k].mentions) = 1
                   THEN tasks' = RemoveAt(tasks, k)
                   ELSE /\ Len(tasks') = Len(tasks)
                        /\ tasks'[k].mentions = Tail(tasks[k].mentions)
                        /\ tasks'[k].pc = "find"
                        /\ \A j \in 1..Len(tasks) : j # k => tasks'[j] = tasks[j]]_vars
  /\ [][(last'.op = "save" /\ last'.err = "ok")
        => out' = {MentionEmission(rooms, last'.target)}]_vars

\* C30 witness: the save for one target has failed and the processing goes
\* on with the next, a different target.
C30_Witness ==
  /\ last.op = "save"
  /\ last.err = "save failed"
  /\ Len(tasks) = 1
  /\ tasks[1].pc = "find"
  /\ Head(tasks[1].mentions) # last.target

\* C25: a page-scoped event whose data is missing is dropped: nothing is
\* emitted, room membership, presence and the connections are as before.
C25_MalformedDropped ==
  [][last'.err = "TypeError" =>
       /\ out' = {}
       /\ rooms' = rooms
       /\ connectedUsers' = connectedUsers
       /\ status' = status]_vars

\* C22: the step that receives a document-update emits its broadcast to the
\* other members of the page room, whatever the content, and starts mention
\* processing only at its first step; every later step of mention
\* processing, successful or failed, emits no document-update and changes no
\* connection, room or presence.
C22_BroadcastFirst ==
  /\ [][(last'.op = "document-update" /\ last'.err = "ok") =>
          /\ out' = { Emission("document-update", PageRoom(last'.key),
                               rooms[PageRoom(last'.key)] \ {last'.conn},
                               last'.conn, last'.user, {}) }
          /\ \/ tasks' = tasks
             \/ /\ Len(tasks') = Len(tasks) + 1
                /\ tasks'[Len(tasks')].pc = "lookup"
                /\ SubSeq(tasks', 1, Len(tasks)) = tasks]_vars
  /\ [][last'.op \in MentionSteps =>
          /\ \A e \in out' : e.ev = "mention-notification"
          /\ UNCHANGED <<status, user, rooms, connectedUsers>>
          /\ last'.err \in {"ok", "no page", "Mentioned user not found",
                            "recent", "saving", "save failed"}]_vars

\* C22 witness: a document-update with a mention marker has been broadcast
\* to a member of the page room and its mention processing has not yet made
\* its first lookup.
C22_Witness ==
  /\ last.op = "document-update"
  /\ Len(last.content) > 0
  /\ Receivers("document-update") # {}
  /\ Len(tasks) > 0
  /\ tasks[Len(tasks)].pc = "lookup"

\* C23: no document-update handler waits for mention processing: none is
\* suspended on a detectMentions call.
C23_HandlerNeverAwaits ==
  AwaitedTasks(tasks) = {}

\* C27: also when mention processing of several updates interleaves, no two
\* notifications of the same target, page and author are persisted within
\* Window minutes of each other.
C27_SuppressionUnderInterleaving ==
  \A n \in BagToSet(notifications) :
    /\ CopiesIn(n, notifications) <= 1
    /\ \A m \in MentionsOf(notifications, n.userId, n.pageId, n.mentionedBy) \ {n} :
         m.createdAt > n.createdAt + Window \/ n.createdAt > m.createdAt + Window

\* C26: publishing is fire-and-forget for the services: whether the emit
\* method raised or no server was registered, the service step that has just
\* run completed without error and its document is as the step left it: the
\* activity saved, the task created, updated or deleted.
PersistenceOps ==
  {"createActivityService", "createTaskService", "updateTaskService", "deleteTaskService"}
C26_FireAndForget ==
  last.op \in PersistenceOps \cup {"notifyAssignee"} =>
    /\ last.err = "ok"
    /\ last.op = "createActivityService" => store.activities >= 1
    /\ last.op = "createTaskService" => store.tasks[last.key] = "created"
    /\ last.op = "updateTaskService" => store.tasks[last.key] = "updated"
    /\ last.op = "deleteTaskService" => store.tasks[last.key] = "none"
\* A task was created while the analytics emit raised, and another service
\* step ran with no server registered.
C26_Witness ==
  /\ last.op = "createTaskService"
  /\ last.emit = "threw"
  /\ out = {}
  /\ store.tasks[last.key] = "created"
  /\ ~collaborationServer["activity"]
  /\ store.activities >= 1

====
